---- MODULE Spec2Model ----
(***************************************************************************)
(* Model of the PL/0 front end: the lexer (src/src/lex.rs), the structural *)
(* checker over a token stream (src/src/pre_grammar.rs), the diagnostics   *)
(* recorder (src/src/error.rs) and the two position indexes                *)
(* (src/src/error.rs and src/src/line_pos.rs).                             *)
(*                                                                         *)
(* A character is a one-character string, a string of the program is a     *)
(* sequence of characters.  Offsets are 0-based as in the source; TLA+     *)
(* sequences are 1-based, so the character at offset p is input[p + 1].    *)
(***************************************************************************)
EXTENDS Integers, Sequences, FiniteSets, TLC

VARIABLES
    input, pos, errors, pc, ret,          \* Lexer and its caller
    peeked,                               \* what the caller's last lookahead returned
    tokens, index, vars, cerrors, cpc,    \* TokenStream, declared map, ErrorRecorder.errors
    content, start_offset, query, shown   \* LinePos and the diagnostic being rendered

allVars == <<input, pos, errors, pc, ret, peeked,
             tokens, index, vars, cerrors, cpc,
             content, start_offset, query, shown>>

lexVars == <<input, pos, errors, pc, ret, peeked>>
chkVars == <<tokens, index, vars, cerrors, cpc>>
posVars == <<content, start_offset, query, shown>>

(***************************************************************************)
(* Bounds of the model.                                                    *)
(***************************************************************************)
MaxLen == 3          \* longest lexer input, in characters
LongDigits == 10     \* length of the long runs of digits among the lexer inputs
MaxTokens == 4       \* longest unstructured token stream given to the checker
MaxBody == 3         \* tokens after `begin` in a structured token stream
UsizeBits == 6       \* width of usize in the model
MaxText == 3         \* longest text given to LinePos::new, in characters

(***************************************************************************)
(* Characters.                                                             *)
(***************************************************************************)
Letters == {"o", "r", "R"}
Digits == {"0", "7"}
Spaces == {" ", "\n"}
Symbols == {"/", ":", "=", "<", ">", "+", ";"}
Alphabet == Letters \cup Digits \cup Spaces \cup Symbols \cup {"#"}

NoChar == "EOF"      \* Option<char>::None

is_whitespace(c) == c \in Spaces
is_ascii_alphabetic(c) == c \in Letters
is_numeric(c) == c \in Digits
is_ascii_alphanumeric(c) == c \in Letters \cup Digits

to_lowercase_char(c) == IF c = "R" THEN "r" ELSE c
to_lowercase(s) == [i \in DOMAIN s |-> to_lowercase_char(s[i])]

DigitValue(c) == IF c = "7" THEN 7 ELSE 0

I32_MAX == 2147483647

(***************************************************************************)
(* Option and token values.  A token is [kind, text, val]; text is the     *)
(* payload of Ident, val the payload of Int.                               *)
(***************************************************************************)
Tok(k) == [kind |-> k, text |-> <<>>, val |-> 0]
TokenIdent(s) == [kind |-> "Ident", text |-> s, val |-> 0]
TokenInt(n) == [kind |-> "Int", text |-> <<>>, val |-> n]

NoToken == Tok("NoToken")                                  \* nothing returned (yet)
None == [some |-> FALSE, offset |-> 0, token |-> NoToken]  \* Option::None
Some(off, t) == [some |-> TRUE, offset |-> off, token |-> t]
NotCalled == [some |-> FALSE, offset |-> 0, token |-> Tok("NotCalled")]

OffsetError(off, m) == [offset |-> off, msg |-> m]

\* the value a lookahead returned: an Option<Token> or an offset
Peeked(by, sm, t, off) == [by |-> by, some |-> sm, token |-> t, offset |-> off]
NotPeeked == Peeked("none", FALSE, NoToken, 0)

\* no diagnostic has been rendered
NotShown == [by |-> "none", line |-> 0, col |-> 0, text |-> <<>>, failed |-> FALSE]

(***************************************************************************)
(* Lexer: character primitives.                                            *)
(***************************************************************************)
peek_char(inp, p) == IF p < Len(inp) THEN inp[p + 1] ELSE NoChar

\* the position after consume_char
consume_char(inp, p) == IF peek_char(inp, p) # NoChar THEN p + 1 ELSE p

push_error_pos(errs, off, m) == Append(errs, OffsetError(off, m))

(***************************************************************************)
(* Lexer::consume_token, one branch of the match per operator.  A branch   *)
(* returns the new cursor, the new error list, the token it returns        *)
(* (NoToken when it does not return) and where control goes: "return",     *)
(* "continue" (next iteration of the outer while) or "comment" (the inner  *)
(* while of the comment branch).                                           *)
(***************************************************************************)
Branch(p, errs, t, nx) == [pos |-> p, errors |-> errs, token |-> t, next |-> nx]

Keyword(s) ==
    IF s = <<"o", "r">> THEN Tok("Or")
    ELSE IF s = <<"v", "a", "r">> THEN Tok("Var")
    ELSE IF s = <<"i", "n", "t", "e", "g", "e", "r">> THEN Tok("Integer")
    ELSE IF s = <<"l", "o", "n", "g", "i", "n", "t">> THEN Tok("Longint")
    ELSE IF s = <<"b", "o", "o", "l">> THEN Tok("Bool")
    ELSE IF s = <<"r", "e", "a", "l">> THEN Tok("Real")
    ELSE IF s = <<"i", "f">> THEN Tok("If")
    ELSE IF s = <<"t", "h", "e", "n">> THEN Tok("Then")
    ELSE IF s = <<"e", "l", "s", "e">> THEN Tok("Else")
    ELSE IF s = <<"w", "h", "i", "l", "e">> THEN Tok("While")
    ELSE IF s = <<"d", "o">> THEN Tok("Do")
    ELSE IF s = <<"b", "e", "g", "i", "n">> THEN Tok("Begin")
    ELSE IF s = <<"e", "n", "d">> THEN Tok("End")
    ELSE IF s = <<"a", "n", "d">> THEN Tok("And")
    ELSE NoToken

\* the cursor after the greedy run of characters of class cls
RECURSIVE RunEnd(_, _, _)
RunEnd(inp, p, cls) ==
    IF peek_char(inp, p) \in cls THEN RunEnd(inp, p + 1, cls) ELSE p

IdentBranch(inp, p, errs) ==
    LET e == RunEnd(inp, p, {c \in Alphabet : is_ascii_alphanumeric(c)})
        ident == SubSeq(inp, p + 1, e)
        kw == Keyword(to_lowercase(ident))
    IN  Branch(e, errs, IF kw.kind # "NoToken" THEN kw ELSE TokenIdent(ident), "return")

\* str::parse::<i32> of a run of ASCII digits: [ok, val]
RECURSIVE ParseFrom(_, _, _)
ParseFrom(num, i, acc) ==
    IF i > Len(num) THEN [ok |-> TRUE, val |-> acc]
    ELSE IF acc > (I32_MAX - DigitValue(num[i])) \div 10
         THEN [ok |-> FALSE, val |-> 0]
         ELSE ParseFrom(num, i + 1, acc * 10 + DigitValue(num[i]))

\* slip: a numeral beyond i32 saturates instead of failing
parse_Saturating(num) ==
    IF ParseFrom(num, 1, 0).ok
    THEN ParseFrom(num, 1, 0)
    ELSE [ok |-> TRUE, val |-> I32_MAX]

parse(num) == ParseFrom(num, 1, 0)

\* slip: the length test of `num.starts_with('0') && num.len() > 1` is dropped
LeadingZeroErrors_NoLenTest(errs, num, start) ==
    IF num[1] = "0"
    THEN push_error_pos(errs, start, "Number cannot start with 0")
    ELSE errs

LeadingZeroErrors(errs, num, start) ==
    IF num[1] = "0" /\ Len(num) > 1
    THEN push_error_pos(errs, start, "Number cannot start with 0")
    ELSE errs

NumberBranch(inp, p, errs) ==
    LET e == RunEnd(inp, p, {c \in Alphabet : is_numeric(c)})
        num == SubSeq(inp, p + 1, e)
        errs1 == IF is_ascii_alphabetic(peek_char(inp, e))
                 THEN push_error_pos(errs, e, "Unexpected character after number")
                 ELSE errs
        errs2 == LeadingZeroErrors(errs1, num, p)
        r == parse(num)
    IN  IF r.ok
        THEN Branch(e, errs2, TokenInt(r.val), "return")
        ELSE Branch(e, push_error_pos(errs2, p, "Invalid number or out of range"),
                    NoToken, "continue")

SingleBranch(inp, p, errs, k) == Branch(consume_char(inp, p), errs, Tok(k), "return")

\* on entry the cursor is still on the '/' that selected this arm
SlashBranch(inp, p, errs) ==
    IF peek_char(inp, p) = "/"
    THEN Branch(p, errs, NoToken, "comment")
    ELSE Branch(consume_char(inp, p), errs, Tok("Div"), "return")

ColonBranch(inp, p, errs) ==
    LET p1 == consume_char(inp, p) IN
    IF peek_char(inp, p1) = "="
    THEN Branch(consume_char(inp, p1), errs, Tok("Assign"), "return")
    ELSE Branch(p1, errs, Tok("Colon"), "return")

LtBranch(inp, p, errs) ==
    LET p1 == consume_char(inp, p) IN
    IF peek_char(inp, p1) = ">"
    THEN Branch(consume_char(inp, p1), errs, Tok("Ne"), "return")
    ELSE IF peek_char(inp, p1) = "="
         THEN Branch(consume_char(inp, p1), errs, Tok("Le"), "return")
         ELSE Branch(p1, errs, Tok("Lt"), "return")

GtBranch(inp, p, errs) ==
    LET p1 == consume_char(inp, p) IN
    IF peek_char(inp, p1) = "="
    THEN Branch(consume_char(inp, p1), errs, Tok("Ge"), "return")
    ELSE Branch(p1, errs, Tok("Gt"), "return")

\* slip: a lone '=' is returned as the equality token instead of being an error
EqBranch_AcceptSingle(inp, p, errs) ==
    LET p1 == consume_char(inp, p) IN
    IF peek_char(inp, p1) = "="
    THEN Branch(consume_char(inp, p1), errs, Tok("Eq"), "return")
    ELSE Branch(p1, errs, Tok("Eq"), "return")

EqBranch(inp, p, errs) ==
    LET p1 == consume_char(inp, p) IN
    IF peek_char(inp, p1) = "="
    THEN Branch(consume_char(inp, p1), errs, Tok("Eq"), "return")
    ELSE Branch(p1, push_error_pos(errs, p1, "Unexpected character after ="),
                NoToken, "continue")

OtherBranch(inp, p, errs) ==
    Branch(consume_char(inp, p),
           push_error_pos(errs, p, "Unexpected character " \o peek_char(inp, p)),
           NoToken, "continue")

\* the body of one iteration of the outer while, for a non-blank character c
Dispatch(inp, p, errs) ==
    LET c == peek_char(inp, p) IN
    IF is_ascii_alphabetic(c) THEN IdentBranch(inp, p, errs)
    ELSE IF is_numeric(c) THEN NumberBranch(inp, p, errs)
    ELSE IF c = "+" THEN SingleBranch(inp, p, errs, "Add")
    ELSE IF c = "-" THEN SingleBranch(inp, p, errs, "Sub")
    ELSE IF c = "*" THEN SingleBranch(inp, p, errs, "Mul")
    ELSE IF c = "/" THEN SlashBranch(inp, p, errs)
    ELSE IF c = ":" THEN ColonBranch(inp, p, errs)
    ELSE IF c = "<" THEN LtBranch(inp, p, errs)
    ELSE IF c = ">" THEN GtBranch(inp, p, errs)
    ELSE IF c = "=" THEN EqBranch(inp, p, errs)
    ELSE IF c = "(" THEN SingleBranch(inp, p, errs, "LParen")
    ELSE IF c = ")" THEN SingleBranch(inp, p, errs, "RParen")
    ELSE IF c = "," THEN SingleBranch(inp, p, errs, "Comma")
    ELSE IF c = ";" THEN SingleBranch(inp, p, errs, "SemiColon")
    ELSE OtherBranch(inp, p, errs)

(***************************************************************************)
(* Lookahead.  peek_token and peek_pos take &self, build a second Lexer    *)
(* and run consume_token on it to completion.                              *)
(***************************************************************************)
\* what consume_token gave when run to completion: out is "return" (token, at
\* offset), "none" (None) or "diverge" (the inner while of the comment arm at
\* end of input, which never exits)
Completed(p, errs, t, off, out) ==
    [pos |-> p, errors |-> errs, token |-> t, offset |-> off, out |-> out]

\* consume_token on a lexer that is at b.next ("continue": head of the outer
\* while, "comment": head of the inner while) with cursor b.pos, errors b.errors
RECURSIVE consume_token(_, _)
consume_token(inp, b) ==
    IF b.next = "comment"
    THEN IF peek_char(inp, b.pos) = "\n"
         THEN consume_token(inp, Branch(b.pos, b.errors, NoToken, "continue"))
         ELSE IF peek_char(inp, b.pos) = NoChar
              THEN Completed(b.pos, b.errors, NoToken, 0, "diverge")
              ELSE consume_token(inp, Branch(consume_char(inp, b.pos), b.errors,
                                             NoToken, "comment"))
    ELSE IF peek_char(inp, b.pos) = NoChar
    THEN Completed(b.pos, b.errors, NoToken, 0, "none")
    ELSE IF is_whitespace(peek_char(inp, b.pos))
    THEN consume_token(inp, Branch(consume_char(inp, b.pos), b.errors,
                                   NoToken, "continue"))
    ELSE IF Dispatch(inp, b.pos, b.errors).next = "return"
    THEN Completed(Dispatch(inp, b.pos, b.errors).pos,
                   Dispatch(inp, b.pos, b.errors).errors,
                   Dispatch(inp, b.pos, b.errors).token, b.pos, "return")
    ELSE consume_token(inp, Dispatch(inp, b.pos, b.errors))

\* the fields of self after a lookahead, what it returned, and whether it hangs
Lookahead(p, errs, pk, hang) == [pos |-> p, errors |-> errs, peeked |-> pk, hang |-> hang]

\* slip: the lookahead runs consume_token on self instead of on a second lexer
peek_token_OnSelf(inp, p, errs) ==
    LET lexer == consume_token(inp, Branch(p, errs, NoToken, "continue")) IN
    Lookahead(lexer.pos, lexer.errors,
              Peeked("peek_token", lexer.out = "return", lexer.token, 0),
              lexer.out = "diverge")

\* Lexer::peek_token: the second lexer starts at self.pos with no errors
peek_token(inp, p, errs) ==
    LET lexer == consume_token(inp, Branch(p, <<>>, NoToken, "continue")) IN
    Lookahead(p, errs,
              Peeked("peek_token", lexer.out = "return", lexer.token, 0),
              lexer.out = "diverge")

\* Lexer::peek_pos: the second lexer is a clone of self
Lexer_peek_pos(inp, p, errs) ==
    LET lexer == consume_token(inp, Branch(p, errs, NoToken, "continue")) IN
    Lookahead(p, errs,
              Peeked("peek_pos", FALSE, NoToken,
                     IF lexer.out = "return" THEN lexer.offset ELSE p),
              lexer.out = "diverge")

(***************************************************************************)
(* Lexer actions.  pc is the caller's and the lexer's position:            *)
(*   "ready"   between two calls of consume_token                          *)
(*   "scan"    at the head of the outer while of consume_token             *)
(*   "comment" at the head of the inner while of the comment arm           *)
(*   "eof"     consume_token returned None; the caller stops               *)
(*   "peek_hang" the caller is inside a peek_token or peek_pos whose       *)
(*             throwaway lexer never returns                               *)
(***************************************************************************)
\* the sequences over S of length at most n
Seqs(S, n) == UNION {[1..k -> S] : k \in 0..n}

\* a run of LongDigits digits (a first digit, then one digit repeated), alone or
\* followed by one character
LongNumerals ==
    {[i \in 1..LongDigits |-> IF i = 1 THEN lead ELSE fill] \o tail :
        lead \in Digits, fill \in Digits, tail \in Seqs(Alphabet \ Digits, 1)}

LexInputs == Seqs(Alphabet, MaxLen) \cup LongNumerals

\* the caller asks for the next token
Call ==
    /\ pc = "ready"
    /\ pc' = "scan"
    /\ UNCHANGED <<input, pos, errors, ret>>

\* while let Some(c) = self.peek_char() fails: return None
ScanEof ==
    /\ pc = "scan"
    /\ peek_char(input, pos) = NoChar
    /\ pc' = "eof"
    /\ ret' = None
    /\ UNCHANGED <<input, pos, errors>>

ScanWhitespace ==
    /\ pc = "scan"
    /\ is_whitespace(peek_char(input, pos))
    /\ pos' = consume_char(input, pos)
    /\ UNCHANGED <<input, errors, pc, ret>>

ScanToken ==
    /\ pc = "scan"
    /\ peek_char(input, pos) # NoChar
    /\ ~is_whitespace(peek_char(input, pos))
    /\ LET b == Dispatch(input, pos, errors) IN
        /\ pos' = b.pos
        /\ errors' = b.errors
        /\ pc' = CASE b.next = "return" -> "ready"
                   [] b.next = "continue" -> "scan"
                   [] b.next = "comment" -> "comment"
        /\ ret' = IF b.next = "return" THEN Some(pos, b.token) ELSE ret
    /\ UNCHANGED input

\* one test of `while self.peek_char() != Some('\n')` and, if it holds, its body
CommentStep ==
    /\ pc = "comment"
    /\ IF peek_char(input, pos) # "\n"
       THEN pos' = consume_char(input, pos) /\ pc' = "comment"
       ELSE pos' = pos /\ pc' = "scan"
    /\ UNCHANGED <<input, errors, ret>>

\* the caller looks at the next token without consuming it
PeekToken ==
    /\ pc = "ready"
    /\ LET l == peek_token(input, pos, errors) IN
        /\ pos' = l.pos
        /\ errors' = l.errors
        /\ peeked' = l.peeked
        /\ pc' = IF l.hang THEN "peek_hang" ELSE "ready"
    /\ UNCHANGED <<input, ret>>

\* the caller asks for the offset of the next token
PeekPos ==
    /\ pc = "ready"
    /\ LET l == Lexer_peek_pos(input, pos, errors) IN
        /\ pos' = l.pos
        /\ errors' = l.errors
        /\ peeked' = l.peeked
        /\ pc' = IF l.hang THEN "peek_hang" ELSE "ready"
    /\ UNCHANGED <<input, ret>>

LexInit ==
    /\ input \in LexInputs
    /\ pos = 0
    /\ errors = <<>>
    /\ pc = "ready"
    /\ ret = NotCalled
    /\ peeked = NotPeeked
    /\ tokens = <<>> /\ index = 0 /\ vars = {} /\ cerrors = <<>> /\ cpc = "off"
    /\ content = <<>> /\ start_offset = <<>> /\ query = 0 /\ shown = NotShown

\* the steps of the caller's next call of consume_token; the caller drops the
\* value of its last lookahead when it makes the call
LexStep ==
    \/ (Call /\ peeked' = NotPeeked /\ UNCHANGED chkVars /\ UNCHANGED posVars)
    \/ (ScanEof /\ UNCHANGED peeked /\ UNCHANGED chkVars /\ UNCHANGED posVars)
    \/ (ScanWhitespace /\ UNCHANGED peeked /\ UNCHANGED chkVars /\ UNCHANGED posVars)
    \/ (ScanToken /\ UNCHANGED peeked /\ UNCHANGED chkVars /\ UNCHANGED posVars)
    \/ (CommentStep /\ UNCHANGED peeked /\ UNCHANGED chkVars /\ UNCHANGED posVars)

LexNext ==
    \/ LexStep
    \/ (PeekToken /\ UNCHANGED chkVars /\ UNCHANGED posVars)
    \/ (PeekPos /\ UNCHANGED chkVars /\ UNCHANGED posVars)

LexSpec == LexInit /\ [][LexNext]_allVars

\* consume_token is sequential code, a step that can be taken is taken, and the
\* caller does not look ahead for ever: it goes on to consume
LexFairSpec == LexSpec /\ WF_allVars(LexStep)

(***************************************************************************)
(* Structural checker (pre_grammar.rs) over the token vector that          *)
(* TokenStream::new receives.  A token is [offset, token, content]; token  *)
(* is the TokenEnum tag, content the source text of an identifier (a       *)
(* one-character name here).  ErrorRecorder.errors is cerrors.             *)
(***************************************************************************)
USIZE_MAX == 2 ^ UsizeBits - 1
ISIZE_MAX == 2 ^ (UsizeBits - 1) - 1

EOF == "EOF"         \* Option<&TokenEnum>::None

Token(off, k, c) == [offset |-> off, token |-> k, content |-> c]

TypeTokens == {"Integer", "Longint", "Bool", "Real"}

\* TypeEnum::try_from(token).ok(): the type, or "None"
try_from(k) == IF k \in TypeTokens THEN k ELSE "None"

peek(ts, i) == IF i < Len(ts) THEN ts[i + 1].token ELSE EOF

peek_pos(ts, i) == IF i < Len(ts) THEN ts[i + 1].offset ELSE USIZE_MAX

\* the index after next()
next(ts, i) == IF i < Len(ts) THEN i + 1 ELSE i

\* ErrorRecorder::error
error(errs, off, m) == Append(errs, OffsetError(off, m))

no_error(errs) == errs = <<>>

\* the outcome of a fallible step: ok is FALSE after ErrorRecorder::hard;
\* ids is the list of (identifier_lowercase, offset) parsed so far
Outcome(ok, i, errs, ids) == [ok |-> ok, index |-> i, errors |-> errs, ids |-> ids]

\* ErrorRecorder::hard
hard(i, errs, ids, off, m) == Outcome(FALSE, i, error(errs, off, m), ids)

expect(ts, i, errs, ids, k) ==
    LET p == peek_pos(ts, i) IN
    IF peek(ts, i) = k THEN Outcome(TRUE, next(ts, i), errs, ids)
    ELSE hard(next(ts, i), errs, ids, p,
              "Expected " \o k \o ", found " \o peek(ts, i))

\* slip: the name is kept as written instead of being folded to lower case
identifier_KeepCase(ts, i, errs, ids) ==
    LET r == expect(ts, i, errs, ids, "Identifier") IN
    IF r.ok
    THEN Outcome(TRUE, r.index, r.errors,
                 Append(ids, <<ts[i + 1].content, ts[i + 1].offset>>))
    ELSE r

identifier(ts, i, errs, ids) ==
    LET r == expect(ts, i, errs, ids, "Identifier") IN
    IF r.ok
    THEN Outcome(TRUE, r.index, r.errors,
                 Append(ids, <<to_lowercase_char(ts[i + 1].content), ts[i + 1].offset>>))
    ELSE r

\* the loop of identifier_list, after the call of identifier that gave r: the
\* `?` returns r when it failed, else the match on peek() is taken
RECURSIVE identifier_list_loop(_, _)
identifier_list_loop(ts, r) ==
    IF ~r.ok THEN r
    ELSE IF peek(ts, r.index) = "Colon" THEN r
    ELSE IF peek(ts, r.index) = "Comma"
    THEN identifier_list_loop(ts, identifier(ts, next(ts, r.index), r.errors, r.ids))
    ELSE IF peek(ts, r.index) = "Identifier"
    THEN identifier_list_loop(ts,
             identifier(ts, r.index, error(r.errors, peek_pos(ts, r.index), "Missing comma"),
                        r.ids))
    ELSE hard(r.index, r.errors, r.ids, peek_pos(ts, r.index), "Expected comma or colon")

identifier_list(ts, i, errs) ==
    identifier_list_loop(ts, identifier(ts, i, errs, <<>>))

\* the declared map, a BTreeMap<String, TypeEnum>, as a set of entries
Entry(n, ty) == [name |-> n, ty |-> ty]
contains_key(vs, n) == \E e \in vs : e.name = n

\* slip: the loop stops at the first duplicate instead of going on
RECURSIVE insert_identifiers_StopAtDuplicate(_, _, _, _, _)
insert_identifiers_StopAtDuplicate(vs, errs, ids, k, ty) ==
    IF k > Len(ids) THEN [vars |-> vs, errors |-> errs]
    ELSE IF contains_key(vs, ids[k][1])
         THEN [vars |-> vs,
               errors |-> error(errs, ids[k][2], "Duplicate identifier: " \o ids[k][1])]
         ELSE insert_identifiers_StopAtDuplicate(vs \cup {Entry(ids[k][1], ty)},
                                                 errs, ids, k + 1, ty)

\* the for loop that ends def_line, from the k-th identifier on
RECURSIVE insert_identifiers(_, _, _, _, _)
insert_identifiers(vs, errs, ids, k, ty) ==
    IF k > Len(ids) THEN [vars |-> vs, errors |-> errs]
    ELSE IF contains_key(vs, ids[k][1])
         THEN insert_identifiers(vs,
                  error(errs, ids[k][2], "Duplicate identifier: " \o ids[k][1]),
                  ids, k + 1, ty)
         ELSE insert_identifiers(vs \cup {Entry(ids[k][1], ty)}, errs, ids, k + 1, ty)

\* def_line: [ok, index, errors, ids, vars]
DefOutcome(r, vs) ==
    [ok |-> r.ok, index |-> r.index, errors |-> r.errors, ids |-> r.ids, vars |-> vs]

def_line(ts, i, vs, errs) ==
    LET l == identifier_list(ts, i, errs) IN
    IF ~l.ok THEN DefOutcome(l, vs)
    ELSE LET c == expect(ts, l.index, l.errors, l.ids, "Colon") IN
    IF ~c.ok THEN DefOutcome(c, vs)
    ELSE LET p == peek_pos(ts, c.index)
             ty == try_from(peek(ts, c.index))
             i1 == next(ts, c.index)
    IN
    IF ty = "None" THEN DefOutcome(hard(i1, c.errors, c.ids, p, "Expected type"), vs)
    ELSE LET semi == peek(ts, i1) = "SemiColon"
             i2 == IF semi THEN next(ts, i1) ELSE i1
             errs2 == IF semi THEN c.errors
                      ELSE error(c.errors, peek_pos(ts, i1), "Missing semicolon")
             ins == insert_identifiers(vs, errs2, c.ids, 1, ty)
    IN  [ok |-> TRUE, index |-> i2, errors |-> ins.errors, ids |-> c.ids,
         vars |-> ins.vars]

\* slip: anything but `var` is a soft error and the check goes on
var_block_head_Soft(ts, i, errs) ==
    CASE peek(ts, i) = "Var" -> [index |-> next(ts, i), errors |-> errs, cpc |-> "def_lines"]
      [] peek(ts, i) = "Begin" -> [index |-> i, errors |-> errs, cpc |-> "program_block"]
      [] OTHER -> [index |-> i, errors |-> error(errs, peek_pos(ts, i), "Expected var"),
                   cpc |-> "program_block"]

\* the match that opens var_block
var_block_head(ts, i, errs) ==
    CASE peek(ts, i) = "Var" -> [index |-> next(ts, i), errors |-> errs, cpc |-> "def_lines"]
      [] peek(ts, i) = "Begin" -> [index |-> i, errors |-> errs, cpc |-> "program_block"]
      [] OTHER -> [index |-> i, errors |-> error(errs, peek_pos(ts, i), "Expected var"),
                   cpc |-> "aborted"]

\* slip: the name is looked up as written instead of folded to lower case
body_token_KeepCase(ts, i, vs, errs) ==
    IF peek(ts, i) = "Identifier" /\ ~contains_key(vs, ts[i + 1].content)
    THEN error(errs, ts[i + 1].offset,
               "Undeclared identifier: " \o ts[i + 1].content)
    ELSE errs

\* the errors after one iteration of the loop of program_block
body_token(ts, i, vs, errs) ==
    IF peek(ts, i) = "Identifier" /\ ~contains_key(vs, to_lowercase_char(ts[i + 1].content))
    THEN error(errs, ts[i + 1].offset,
               "Undeclared identifier: " \o to_lowercase_char(ts[i + 1].content))
    ELSE errs

(***************************************************************************)
(* Checker actions.  cpc is the position in TokenStream::code:             *)
(*   "var_block"      at the match that opens var_block                    *)
(*   "def_lines"      at the head of the while of var_block                *)
(*   "program_block"  at the test that opens program_block                 *)
(*   "body"           at the head of the while of program_block            *)
(*   "done"           code returned Ok(())                                 *)
(*   "aborted"        code returned Err: "Hard error detected, aborting"   *)
(***************************************************************************)
VarBlock ==
    /\ cpc = "var_block"
    /\ LET h == var_block_head(tokens, index, cerrors) IN
        /\ index' = h.index
        /\ cerrors' = h.errors
        /\ cpc' = h.cpc
    /\ UNCHANGED <<tokens, vars>>

DefLine ==
    /\ cpc = "def_lines"
    /\ peek(tokens, index) \notin {EOF, "Begin"}
    /\ LET d == def_line(tokens, index, vars, cerrors) IN
        /\ index' = d.index
        /\ vars' = d.vars
        /\ cerrors' = d.errors
        /\ cpc' = IF d.ok THEN "def_lines" ELSE "aborted"
    /\ UNCHANGED tokens

VarBlockEnd ==
    /\ cpc = "def_lines"
    /\ peek(tokens, index) \in {EOF, "Begin"}
    /\ cpc' = "program_block"
    /\ UNCHANGED <<tokens, index, vars, cerrors>>

ProgramBlock ==
    /\ cpc = "program_block"
    /\ IF peek(tokens, index) # "Begin"
       THEN /\ cerrors' = error(cerrors, peek_pos(tokens, index), "Expected begin")
            /\ cpc' = "aborted"
       ELSE /\ cerrors' = cerrors
            /\ cpc' = "body"
    /\ UNCHANGED <<tokens, index, vars>>

BodyToken ==
    /\ cpc = "body"
    /\ peek(tokens, index) # EOF
    /\ cerrors' = body_token(tokens, index, vars, cerrors)
    /\ index' = next(tokens, index)
    /\ UNCHANGED <<tokens, vars, cpc>>

BodyEnd ==
    /\ cpc = "body"
    /\ peek(tokens, index) = EOF
    /\ cpc' = "done"
    /\ UNCHANGED <<tokens, index, vars, cerrors>>

(***************************************************************************)
(* Token vectors given to the checker.  The i-th token has offset          *)
(* 2 * (i - 1): offsets are distinct and increasing, as those of a lexer.  *)
(***************************************************************************)
Names == {"r", "R", "o"}

Kw(k) == [token |-> k, content |-> ""]
Id(n) == [token |-> "Identifier", content |-> n]

TokenAlphabet ==
    {Kw(k) : k \in {"Var", "Begin", "End", "Colon", "Comma", "SemiColon",
                    "Integer", "Bool"}}
    \cup {Id(n) : n \in Names}

BodyAlphabet == {Kw("Begin"), Kw("End")} \cup {Id(n) : n \in Names}

DeclLines ==
    { <<>>,
      <<Id("r"), Kw("Colon"), Kw("Integer"), Kw("SemiColon")>>,
      <<Id("R"), Kw("Colon"), Kw("Bool"), Kw("SemiColon")>>,
      <<Id("o"), Kw("Colon"), Kw("Bool"), Kw("SemiColon")>>,
      <<Id("o"), Kw("Colon"), Kw("Integer")>>,
      <<Id("r"), Kw("Comma"), Id("R"), Kw("Colon"), Kw("Bool"), Kw("SemiColon")>>,
      <<Id("r"), Kw("Comma"), Id("o"), Kw("Colon"), Kw("Bool"), Kw("SemiColon")>>,
      <<Id("r"), Id("o"), Kw("Colon"), Kw("Integer"), Kw("SemiColon")>> }

Programs ==
    { <<Kw("Var")>> \o l1 \o l2 \o <<Kw("Begin")>> \o b :
        l1 \in DeclLines, l2 \in DeclLines, b \in Seqs(BodyAlphabet, MaxBody) }

CheckInputs == Seqs(TokenAlphabet, MaxTokens) \cup Programs

WithOffsets(s) == [i \in DOMAIN s |-> Token(2 * (i - 1), s[i].token, s[i].content)]

CheckInit ==
    /\ \E s \in CheckInputs : tokens = WithOffsets(s)
    /\ index = 0
    /\ vars = {}
    /\ cerrors = <<>>
    /\ cpc = "var_block"
    /\ input = <<>> /\ pos = 0 /\ errors = <<>> /\ pc = "off" /\ ret = NotCalled /\ peeked = NotPeeked
    /\ content = <<>> /\ start_offset = <<>> /\ query = 0 /\ shown = NotShown

CheckNext ==
    \/ (VarBlock /\ UNCHANGED lexVars /\ UNCHANGED posVars)
    \/ (DefLine /\ UNCHANGED lexVars /\ UNCHANGED posVars)
    \/ (VarBlockEnd /\ UNCHANGED lexVars /\ UNCHANGED posVars)
    \/ (ProgramBlock /\ UNCHANGED lexVars /\ UNCHANGED posVars)
    \/ (BodyToken /\ UNCHANGED lexVars /\ UNCHANGED posVars)
    \/ (BodyEnd /\ UNCHANGED lexVars /\ UNCHANGED posVars)

CheckSpec == CheckInit /\ [][CheckNext]_allVars

(***************************************************************************)
(* Position index.  LinePos::new is the same in error.rs and line_pos.rs;  *)
(* line_col and the rendering of a diagnostic differ: error.rs clamps an   *)
(* offset beyond the text, line_pos.rs does not.                           *)
(***************************************************************************)
TextAlphabet == {"a", "\n"}
Texts == Seqs(TextAlphabet, MaxText)

\* LinePos::new: the normalized content
new_content(text) ==
    IF text = <<>> \/ text[Len(text)] # "\n" THEN Append(text, "\n") ELSE text

\* LinePos::new: the start offsets, from the first i characters of content c
RECURSIVE new_start_offset(_, _)
new_start_offset(c, i) ==
    IF i = 0 THEN <<0>>
    ELSE IF c[i] = "\n" THEN Append(new_start_offset(c, i - 1), i)
         ELSE new_start_offset(c, i - 1)

\* start_offset.binary_search(&offset).map(|x| x + 1).unwrap_or_else(|x| x)
binary_search_line(so, off) ==
    IF \E k \in 1..Len(so) : so[k] = off
    THEN CHOOSE k \in 1..Len(so) : so[k] = off
    ELSE Cardinality({k \in 1..Len(so) : so[k] < off})

\* error.rs, LinePos::line_col
line_col(c, so, off) ==
    IF off > Len(c) THEN <<Len(so), 1>>
    ELSE LET line == binary_search_line(so, off) IN
         <<line, off - so[line] + 1>>

\* line_pos.rs, LinePos::line_col
line_pos_line_col(c, so, off) ==
    LET line == binary_search_line(so, off) IN
    <<line, off - so[line] + 1>>

NoLine == <<"NoLine">>    \* Option<String>::None

get_line(c, so, line) ==
    IF line >= 1 /\ line + 1 <= Len(so)
    THEN SubSeq(c, so[line] + 1, so[line + 1])
    ELSE NoLine

\* " ".repeat(n) fails with a capacity overflow beyond isize::MAX bytes
repeat_fails(n) == n > ISIZE_MAX

\* what rendering one diagnostic computes
Shown(by, lc, c, so) ==
    [by |-> by, line |-> lc[1], col |-> lc[2],
     text |-> IF get_line(c, so, lc[1]) = NoLine THEN <<>> ELSE get_line(c, so, lc[1]),
     failed |-> repeat_fails(lc[2] - 1)]

\* offsets a diagnostic can carry: inside the text, at and after its end, and
\* the usize::MAX of TokenStream::peek_pos at end of input
Offsets == 0..(MaxText + 2) \cup {USIZE_MAX}

\* error.rs, OffsetError::display_with
DisplayWith ==
    /\ shown.by = "none"
    /\ \E off \in Offsets :
        /\ query' = off
        /\ shown' = Shown("display_with", line_col(content, start_offset, off),
                          content, start_offset)
    /\ UNCHANGED <<content, start_offset>>

\* line_pos.rs, LinePos::display_error
DisplayError ==
    /\ shown.by = "none"
    /\ \E off \in Offsets :
        /\ query' = off
        /\ shown' = Shown("display_error", line_pos_line_col(content, start_offset, off),
                          content, start_offset)
    /\ UNCHANGED <<content, start_offset>>

PosInit ==
    /\ \E text \in Texts :
        /\ content = new_content(text)
        /\ start_offset = new_start_offset(new_content(text), Len(new_content(text)))
    /\ query = 0
    /\ shown = NotShown
    /\ input = <<>> /\ pos = 0 /\ errors = <<>> /\ pc = "off" /\ ret = NotCalled /\ peeked = NotPeeked
    /\ tokens = <<>> /\ index = 0 /\ vars = {} /\ cerrors = <<>> /\ cpc = "off"

PosNext ==
    \/ (DisplayWith /\ UNCHANGED lexVars /\ UNCHANGED chkVars)
    \/ (DisplayError /\ UNCHANGED lexVars /\ UNCHANGED chkVars)

PosSpec == PosInit /\ [][PosNext]_allVars

(***************************************************************************)
(* Properties of the position index.                                       *)
(***************************************************************************)
\* the number of the last line of the text
LastLine == Len(start_offset) - 1

\* C10: for an offset at or beyond the end of the normalized text, usize::MAX
\* included, line_col returns column 1 and the number of the last line, a line
\* that get_line returns, and rendering the diagnostic does not fail.
C10_EofClamp ==
    (shown.by # "none" /\ query >= Len(content)) =>
        /\ ~shown.failed
        /\ shown.col = 1
        /\ shown.line = LastLine
        /\ get_line(content, start_offset, shown.line) # NoLine

(***************************************************************************)
(* Properties of the structural checker.                                   *)
(***************************************************************************)
TokenKinds == {"Var", "Begin", "End", "Colon", "Comma", "SemiColon",
               "Integer", "Bool", "Identifier", EOF}

\* the messages that ErrorRecorder::hard records
HardMessages ==
    {"Expected var", "Expected begin", "Expected type", "Expected comma or colon"}
    \cup {"Expected " \o k \o ", found " \o t : k \in {"Identifier", "Colon"},
                                                 t \in TokenKinds}

IsHard(e) == e.msg \in HardMessages

Last(q) == q[Len(q)]

\* position (1-based) of the first `begin` of the token vector, 0 if none
FirstBegin(ts) ==
    IF \E k \in 1..Len(ts) : ts[k].token = "Begin"
    THEN CHOOSE k \in 1..Len(ts) :
            /\ ts[k].token = "Begin"
            /\ \A j \in 1..(k - 1) : ts[j].token # "Begin"
    ELSE 0

RECURSIVE DepthBefore(_, _, _)
DepthBefore(ts, b, j) ==
    IF j <= b THEN 0
    ELSE LET d == DepthBefore(ts, b, j - 1) IN
         CASE ts[j - 1].token = "Begin" -> d + 1
           [] ts[j - 1].token = "End" -> IF d <= 0 THEN d ELSE d - 1
           [] OTHER -> d

\* C3: the body phase tracks begin/end nesting: an `end` met when no `begin`
\* is open records "unexpected end" at its offset, and a `begin` still open at
\* end of input records "missing end".
C3_Nesting ==
    cpc = "done" =>
        LET b == FirstBegin(tokens) IN
        /\ DepthBefore(tokens, b, Len(tokens) + 1) > 0 =>
              \E j \in 1..Len(cerrors) : cerrors[j].msg = "Missing end"
        /\ \A k \in b..Len(tokens) :
              (tokens[k].token = "End" /\ DepthBefore(tokens, b, k) <= 0) =>
                  \E j \in 1..Len(cerrors) :
                      cerrors[j] = OffsetError(tokens[k].offset, "Unexpected end")

\* positions of the identifiers of the declaration line read from index i to j:
\* the Identifier tokens before the line's colon
LineIds(ts, i, j) ==
    {k \in (i + 1)..j :
        /\ ts[k].token = "Identifier"
        /\ \A m \in (i + 1)..(k - 1) : ts[m].token # "Colon"}

AtDefLine == cpc = "def_lines" /\ peek(tokens, index) \notin {EOF, "Begin"}

DeclEnd ==
    IF cpc \in {"def_lines", "program_block"} THEN index ELSE FirstBegin(tokens) - 1

\* positions where name n (lower case) is declared
Occurrences(n) ==
    {k \in 1..DeclEnd :
        tokens[k].token = "Identifier" /\ to_lowercase_char(tokens[k].content) = n}

Min(S) == CHOOSE x \in S : \A y \in S : x <= y

\* the type that closes the declaration line of the identifier at position k
TypeOfLine(k) ==
    tokens[Min({m \in k..Len(tokens) : tokens[m].token = "Colon"}) + 1].token

C6_Undeclared ==
    [][(cpc = "body" /\ peek(tokens, index) # EOF) =>
        LET t == tokens[index + 1]
            n == to_lowercase_char(t.content)
        IN  /\ vars' = vars
            /\ index' = index + 1
            /\ IF t.token = "Identifier" /\ n \notin {e.name : e \in vars}
               THEN cerrors' = Append(cerrors,
                                      OffsetError(t.offset, "Undeclared identifier: " \o n))
               ELSE cerrors' = cerrors]_allVars

C6_Witness ==
    /\ tokens = WithOffsets(<<Kw("Var"),
                              Id("r"), Kw("Colon"), Kw("Integer"), Kw("SemiColon"),
                              Kw("Begin"), Id("R"), Id("o"), Id("o")>>)
    /\ cpc = "done"
    /\ vars = {Entry("r", "Integer")}
    /\ cerrors = <<OffsetError(14, "Undeclared identifier: o"),
                   OffsetError(16, "Undeclared identifier: o")>>

(***************************************************************************)
(* Properties of the lexer.                                                *)
(***************************************************************************)
\* the errors pushed by the step
NewErrors == SubSeq(errors', Len(errors) + 1, Len(errors'))

\* the maximal run of digits that starts at offset p
NumeralAt(inp, p) == SubSeq(inp, p + 1, RunEnd(inp, p, Digits))

\* the number a run of decimal digits denotes
RECURSIVE DecimalValue(_)
DecimalValue(num) ==
    IF num = <<>> THEN 0
    ELSE 10 * DecimalValue(SubSeq(num, 1, Len(num) - 1)) + DigitValue(num[Len(num)])

HasLeadingZero(num) == Len(num) > 1 /\ num[1] = "0"

\* the number the run of digits denotes is at most i32::MAX
RECURSIVE FitsI32(_)
FitsI32(num) ==
    \/ num = <<>>
    \/ /\ FitsI32(SubSeq(num, 1, Len(num) - 1))
       /\ DecimalValue(SubSeq(num, 1, Len(num) - 1))
              <= (I32_MAX - DigitValue(num[Len(num)])) \div 10

\* C1: consume_token terminates on every finite input: under LexFairSpec the
\* caller eventually gets None, also when a comment is not closed by a newline.
C1_Terminates == <>(pc = "eof")

C8_SingleEqIsEq ==
    [][(pc = "scan" /\ peek_char(input, pos) = "=" /\ peek_char(input, pos + 1) # "=")
        => (/\ ret' = Some(pos, Tok("Eq"))
            /\ errors' = errors)]_allVars

\* C8 amended: the equality token is spelled '==': it is returned at the offset
\* of its first '=' and records no error; a '=' not followed by '=' (and not
\* part of ':=', '<=', '>=') is consumed, returns no token and records one error
\* "Unexpected character after =" at the offset just after it.
C8_DoubleEqIsEq ==
    [][(pc = "scan" /\ peek_char(input, pos) = "=")
        => IF peek_char(input, pos + 1) = "="
           THEN /\ ret' = Some(pos, Tok("Eq"))
                /\ errors' = errors
                /\ pos' = pos + 2
                /\ pc' = "ready"
           ELSE /\ ret' = ret
                /\ errors' = Append(errors,
                                    OffsetError(pos + 1, "Unexpected character after ="))
                /\ pos' = pos + 1
                /\ pc' = "scan"]_allVars

C8_Witness ==
    /\ input = <<"=", "7", "=">>
    /\ pc = "eof"
    /\ errors = <<OffsetError(1, "Unexpected character after ="),
                  OffsetError(3, "Unexpected character after =")>>

\* the token longest match gives for the symbol at offset p, and its length
LongestMatch(inp, p) ==
    LET c == peek_char(inp, p)
        d == peek_char(inp, p + 1)
    IN  CASE c = ":" -> IF d = "=" THEN <<Tok("Assign"), 2>> ELSE <<Tok("Colon"), 1>>
          [] c = "<" -> IF d = ">" THEN <<Tok("Ne"), 2>>
                        ELSE IF d = "=" THEN <<Tok("Le"), 2>> ELSE <<Tok("Lt"), 1>>
          [] c = ">" -> IF d = "=" THEN <<Tok("Ge"), 2>> ELSE <<Tok("Gt"), 1>>
          [] c = "/" -> <<Tok("Div"), 1>>

\* C9: symbols that share a prefix are lexed by longest match with fallback to
\* the short form, the token's offset being the index of its first character;
\* '//' starts a comment and any other '/' is the Div token.
C9_LongestMatch ==
    [][(pc = "scan" /\ peek_char(input, pos) \in {":", "<", ">", "/"})
        => IF peek_char(input, pos) = "/" /\ peek_char(input, pos + 1) = "/"
           THEN pc' = "comment" /\ ret' = ret /\ errors' = errors
           ELSE /\ ret' = Some(pos, LongestMatch(input, pos)[1])
                /\ pos' = pos + LongestMatch(input, pos)[2]
                /\ errors' = errors
                /\ pc' = "ready"]_allVars

\* C11: a lookahead (peek_token, peek_pos) leaves the cursor and the recorded
\* errors as they are; the cursor moves only inside consume_token, never
\* backwards and never beyond the end of the input.
C11_PeekFrame ==
    [][/\ (pc = "ready" /\ pc' \in {"ready", "peek_hang"})
            => (pos' = pos /\ errors' = errors)
       /\ pos <= pos'
       /\ pos' <= Len(input)
       /\ pos' # pos => pc \in {"scan", "comment"}]_allVars

C11_Witness ==
    /\ input = <<"#", "0", "7">>
    /\ pc = "ready"
    /\ peeked = Peeked("peek_token", TRUE, TokenInt(7), 0)
    /\ pos = 0
    /\ errors = <<>>

====
